---- MODULE Spec2Model ----
(***************************************************************************)
(* Model of waddrmgr/keymaker.go: the LocalKeyMaker (CreateMasterKey,      *)
(* DeriveCoinTypeKey, DeriveAccountKey) together with the collaborators it *)
(* calls (hdkeychain extended keys, the key store lookup, the decryptor,   *)
(* zero.Bytes).  One call runs to completion before the next starts.       *)
(***************************************************************************)
EXTENDS Integers, Sequences, FiniteSets, TLC

(***************************************************************************)
(* Bounds.                                                                 *)
(***************************************************************************)
MaxCalls == 2

(***************************************************************************)
(* uint32 values.  A uint32 is kept as its top bit and its low 31 bits, so *)
(* that the true constants (HardenedKeyStart = 2^31) and the true wrap     *)
(* around of uint32 addition are modelled.                                 *)
(***************************************************************************)
Lo31Max == 2147483647

U32(h, l) == [hi |-> h, lo |-> l]

\* uint32 addition, modulo 2^32
Add32(a, b) ==
    LET carry == a.lo > Lo31Max - b.lo
        lo    == IF carry THEN (a.lo - (Lo31Max - b.lo)) - 1 ELSE a.lo + b.lo
        hi    == (a.hi + b.hi + (IF carry THEN 1 ELSE 0)) % 2
    IN  U32(hi, lo)

\* uint32 comparison a > b
Gt32(a, b) == \/ a.hi > b.hi
              \/ (a.hi = b.hi /\ a.lo > b.lo)

HardenedKeyStart == U32(1, 0)
maxCoinType      == U32(0, Lo31Max)
MaxAccountNum    == U32(0, Lo31Max - 1)

(***************************************************************************)
(* Values of the Go types used by the key maker.                           *)
(***************************************************************************)
NoErr == "nil"

\* a nil *hdkeychain.ExtendedKey
NilKey == [root |-> "nil", path |-> <<>>, isPrivate |-> FALSE, netKnown |-> FALSE]

\* a nil []byte
NilBytes == [present |-> FALSE, wellFormed |-> FALSE, root |-> "nil",
             isPrivate |-> FALSE, netKnown |-> FALSE]

\* the serialization of an extended key (or of something that is not one)
Bytes(wf, root, priv, known) ==
    [present |-> TRUE, wellFormed |-> wf, root |-> root,
     isPrivate |-> priv, netKnown |-> known]

\* an encrypted record of the store: nil, or a plaintext sealed under the
\* private crypto key
NilCipher == [nilSlice |-> TRUE, sealed |-> NilBytes]
Seal(b)   == [nilSlice |-> FALSE, sealed |-> b]

ErrCoinTypeTooHigh   == "ErrCoinTypeTooHigh"
ErrAccountNumTooHigh == "ErrAccountNumTooHigh"
ErrWatchingOnly      == "ErrWatchingOnly"
ErrLocked            == "ErrLocked"
ErrKeyChain          == "ErrKeyChain"
ErrDatabase          == "ErrDatabase"
NilDereference       == "panic: nil pointer dereference"

\* managerError(code, desc, err): the error is identified by its code
managerError(code) == code

(***************************************************************************)
(* hdkeychain                                                              *)
(***************************************************************************)
\* roots one of whose hardened children at depth 1 is not a valid key
DegenerateRoots == {"S2"}

IsHardened(i) == i.hi = 1

InvalidChild(k, i) ==
    /\ k.root \in DegenerateRoots
    /\ Len(k.path) = 1
    /\ i = HardenedKeyStart

\* (*ExtendedKey).Child; a nil receiver is handled by the caller's model
Child(k, i) ==
    IF IsHardened(i) /\ ~k.isPrivate
    THEN [key |-> NilKey, err |-> "ErrDeriveHardFromPublic"]
    ELSE IF InvalidChild(k, i)
    THEN [key |-> NilKey, err |-> "ErrInvalidChild"]
    ELSE [key |-> [k EXCEPT !.path = Append(k.path, i)], err |-> NoErr]

\* (*ExtendedKey).Neuter
Neuter(k) ==
    IF ~k.isPrivate
    THEN [key |-> k, err |-> NoErr]
    ELSE IF ~k.netKnown
    THEN [key |-> NilKey, err |-> "ErrUnknownHDKeyID"]
    ELSE [key |-> [k EXCEPT !.isPrivate = FALSE], err |-> NoErr]

NetKnown(params) == params = "mainnet"

\* hdkeychain.NewMaster
NewMaster(sd, params) ==
    IF sd.valid = "badlen"
    THEN [key |-> NilKey, err |-> "ErrInvalidSeedLen"]
    ELSE IF sd.valid = "unusable"
    THEN [key |-> NilKey, err |-> "ErrUnusableSeed"]
    ELSE [key |-> [root |-> sd.id, path |-> <<>>, isPrivate |-> TRUE,
                   netKnown |-> NetKnown(params)],
          err |-> NoErr]

\* hdkeychain.NewKeyFromString
NewKeyFromString(str) ==
    IF ~str.present \/ ~str.wellFormed
    THEN [key |-> NilKey, err |-> "ErrInvalidKeyLen"]
    ELSE [key |-> [root |-> str.root, path |-> <<>>,
                   isPrivate |-> str.isPrivate, netKnown |-> str.netKnown],
          err |-> NoErr]

(***************************************************************************)
(* The store lookup and the decryptor, both supplied per call.             *)
(***************************************************************************)
\* fetchMasterHDKeys(ns): the encrypted private root record, nil, or an error
fetchMasterHDKeys(ns) ==
    IF ns.fails
    THEN [masterRootPrivEnc |-> NilCipher, err |-> ErrDatabase]
    ELSE [masterRootPrivEnc |-> ns.masterRootPrivEnc, err |-> NoErr]

\* EncryptorDecryptor.Decrypt: the sealed plaintext, or an error when locked
Decrypt(cryptoKeyPriv, ciphertext) ==
    IF cryptoKeyPriv = "unlocked" /\ ~ciphertext.nilSlice
    THEN [bytes |-> ciphertext.sealed, err |-> NoErr]
    ELSE [bytes |-> NilBytes, err |-> "ErrDecryptFailed"]

(***************************************************************************)
(* LocalKeyMaker.  s is the receiver: [seed, chainParams, rootPrivKey].    *)
(* Every method yields the values it returns (priv, pub, err), the         *)
(* receiver's rootPrivKey after the call, and what the call did: the       *)
(* number of store lookups, decrypts and Child calls, and the state of the *)
(* decrypted plaintext buffer when the call ended.  returned is FALSE when *)
(* the call ended in a panic instead of a return.                          *)
(***************************************************************************)
Out(root, priv, pub, err, f, d, c, plain) ==
    [root |-> root, priv |-> priv, pub |-> pub, err |-> err,
     fetched |-> f, decrypted |-> d, children |-> c, plain |-> plain,
     returned |-> TRUE]

\* zero.Bytes
zeroBytes(buf) == "zeroed"

\* CreateMasterKey without the assignment to s.rootPrivKey
CreateMasterKey_NoCache(s) ==
    LET m == NewMaster(s.seed, s.chainParams)
        n == Neuter(m.key)
    IN  IF m.err # NoErr
        THEN Out(s.rootPrivKey, NilKey, NilKey,
                 "failed to derive master extended key", 0, 0, 0, "none")
        ELSE IF n.err # NoErr
        THEN Out(s.rootPrivKey, NilKey, NilKey,
                 "failed to neuter master extended key", 0, 0, 0, "none")
        ELSE Out(s.rootPrivKey, m.key, n.key, NoErr, 0, 0, 0, "none")

\* CreateMasterKey assigning s.rootPrivKey before the master key is neutered
CreateMasterKey_CacheBeforeNeuter(s) ==
    LET m == NewMaster(s.seed, s.chainParams)
        n == Neuter(m.key)
    IN  IF m.err # NoErr
        THEN Out(s.rootPrivKey, NilKey, NilKey,
                 "failed to derive master extended key", 0, 0, 0, "none")
        ELSE IF n.err # NoErr
        THEN Out(m.key, NilKey, NilKey,
                 "failed to neuter master extended key", 0, 0, 0, "none")
        ELSE Out(m.key, m.key, n.key, NoErr, 0, 0, 0, "none")

\* CreateMasterKey assigning the result of NewMaster to s.rootPrivKey
\* directly, so that a failure stores nil
CreateMasterKey_ClearOnFail(s) ==
    LET m == NewMaster(s.seed, s.chainParams)
        n == Neuter(m.key)
    IN  IF m.err # NoErr
        THEN Out(NilKey, NilKey, NilKey,
                 "failed to derive master extended key", 0, 0, 0, "none")
        ELSE IF n.err # NoErr
        THEN Out(m.key, NilKey, NilKey,
                 "failed to neuter master extended key", 0, 0, 0, "none")
        ELSE Out(m.key, m.key, n.key, NoErr, 0, 0, 0, "none")

\* CreateMasterKey, keymaker.go:46-61
CreateMasterKey(s) ==
    LET m == NewMaster(s.seed, s.chainParams)
        n == Neuter(m.key)
    IN  IF m.err # NoErr
        THEN Out(s.rootPrivKey, NilKey, NilKey,
                 "failed to derive master extended key", 0, 0, 0, "none")
        ELSE IF n.err # NoErr
        THEN Out(s.rootPrivKey, NilKey, NilKey,
                 "failed to neuter master extended key", 0, 0, 0, "none")
        ELSE Out(m.key, m.key, n.key, NoErr, 0, 0, 0, "none")

\* LazyLoadRoot without the test for a cached root key
LazyLoadRoot_AlwaysLoad(s, ns, cryptoKeyPriv) ==
    LET f == fetchMasterHDKeys(ns)
        d == Decrypt(cryptoKeyPriv, f.masterRootPrivEnc)
        k == NewKeyFromString(d.bytes)
    IN  IF f.err # NoErr
        THEN Out(s.rootPrivKey, NilKey, NilKey, f.err, 1, 0, 0, "none")
        ELSE IF f.masterRootPrivEnc.nilSlice
        THEN Out(s.rootPrivKey, NilKey, NilKey,
                 managerError(ErrWatchingOnly), 1, 0, 0, "none")
        ELSE IF d.err # NoErr
        THEN Out(s.rootPrivKey, NilKey, NilKey,
                 managerError(ErrLocked), 1, 1, 0, "none")
        ELSE IF k.err # NoErr
        THEN Out(k.key, NilKey, NilKey,
                 managerError(ErrKeyChain), 1, 1, 0, zeroBytes(d.bytes))
        ELSE Out(k.key, NilKey, NilKey, NoErr, 1, 1, 0, zeroBytes(d.bytes))

\* LazyLoadRoot decrypting before it tests the record for nil
LazyLoadRoot_DecryptFirst(s, ns, cryptoKeyPriv) ==
    IF s.rootPrivKey # NilKey
    THEN Out(s.rootPrivKey, NilKey, NilKey, NoErr, 0, 0, 0, "none")
    ELSE
    LET f == fetchMasterHDKeys(ns)
        d == Decrypt(cryptoKeyPriv, f.masterRootPrivEnc)
        k == NewKeyFromString(d.bytes)
    IN  IF f.err # NoErr
        THEN Out(s.rootPrivKey, NilKey, NilKey, f.err, 1, 0, 0, "none")
        ELSE IF d.err # NoErr
        THEN Out(s.rootPrivKey, NilKey, NilKey,
                 managerError(ErrLocked), 1, 1, 0, "none")
        ELSE IF f.masterRootPrivEnc.nilSlice
        THEN Out(s.rootPrivKey, NilKey, NilKey,
                 managerError(ErrWatchingOnly), 1, 1, 0, "none")
        ELSE IF k.err # NoErr
        THEN Out(k.key, NilKey, NilKey,
                 managerError(ErrKeyChain), 1, 1, 0, zeroBytes(d.bytes))
        ELSE Out(k.key, NilKey, NilKey, NoErr, 1, 1, 0, zeroBytes(d.bytes))

\* an allocated extended key none of whose fields is set
EmptyKey == [root |-> "empty", path |-> <<>>, isPrivate |-> FALSE,
             netKnown |-> FALSE]

\* LazyLoadRoot allocating the root key before the decrypt, so that a failed
\* decrypt leaves an empty key cached
LazyLoadRoot_CacheOnLocked(s, ns, cryptoKeyPriv) ==
    IF s.rootPrivKey # NilKey
    THEN Out(s.rootPrivKey, NilKey, NilKey, NoErr, 0, 0, 0, "none")
    ELSE
    LET f == fetchMasterHDKeys(ns)
        d == Decrypt(cryptoKeyPriv, f.masterRootPrivEnc)
        k == NewKeyFromString(d.bytes)
    IN  IF f.err # NoErr
        THEN Out(s.rootPrivKey, NilKey, NilKey, f.err, 1, 0, 0, "none")
        ELSE IF f.masterRootPrivEnc.nilSlice
        THEN Out(s.rootPrivKey, NilKey, NilKey,
                 managerError(ErrWatchingOnly), 1, 0, 0, "none")
        ELSE IF d.err # NoErr
        THEN Out(EmptyKey, NilKey, NilKey,
                 managerError(ErrLocked), 1, 1, 0, "none")
        ELSE IF k.err # NoErr
        THEN Out(k.key, NilKey, NilKey,
                 managerError(ErrKeyChain), 1, 1, 0, zeroBytes(d.bytes))
        ELSE Out(k.key, NilKey, NilKey, NoErr, 1, 1, 0, zeroBytes(d.bytes))

\* LazyLoadRoot keeping a partly filled key when the parse fails
LazyLoadRoot_PartialCache(s, ns, cryptoKeyPriv) ==
    IF s.rootPrivKey # NilKey
    THEN Out(s.rootPrivKey, NilKey, NilKey, NoErr, 0, 0, 0, "none")
    ELSE
    LET f == fetchMasterHDKeys(ns)
        d == Decrypt(cryptoKeyPriv, f.masterRootPrivEnc)
        k == NewKeyFromString(d.bytes)
    IN  IF f.err # NoErr
        THEN Out(s.rootPrivKey, NilKey, NilKey, f.err, 1, 0, 0, "none")
        ELSE IF f.masterRootPrivEnc.nilSlice
        THEN Out(s.rootPrivKey, NilKey, NilKey,
                 managerError(ErrWatchingOnly), 1, 0, 0, "none")
        ELSE IF d.err # NoErr
        THEN Out(s.rootPrivKey, NilKey, NilKey,
                 managerError(ErrLocked), 1, 1, 0, "none")
        ELSE IF k.err # NoErr
        THEN Out(EmptyKey, NilKey, NilKey,
                 managerError(ErrKeyChain), 1, 1, 0, zeroBytes(d.bytes))
        ELSE Out(k.key, NilKey, NilKey, NoErr, 1, 1, 0, zeroBytes(d.bytes))

\* LazyLoadRoot zeroing the plaintext after the test of the parse error
LazyLoadRoot_ZeroAfterErrTest(s, ns, cryptoKeyPriv) ==
    IF s.rootPrivKey # NilKey
    THEN Out(s.rootPrivKey, NilKey, NilKey, NoErr, 0, 0, 0, "none")
    ELSE
    LET f == fetchMasterHDKeys(ns)
        d == Decrypt(cryptoKeyPriv, f.masterRootPrivEnc)
        k == NewKeyFromString(d.bytes)
    IN  IF f.err # NoErr
        THEN Out(s.rootPrivKey, NilKey, NilKey, f.err, 1, 0, 0, "none")
        ELSE IF f.masterRootPrivEnc.nilSlice
        THEN Out(s.rootPrivKey, NilKey, NilKey,
                 managerError(ErrWatchingOnly), 1, 0, 0, "none")
        ELSE IF d.err # NoErr
        THEN Out(s.rootPrivKey, NilKey, NilKey,
                 managerError(ErrLocked), 1, 1, 0, "none")
        ELSE IF k.err # NoErr
        THEN Out(k.key, NilKey, NilKey,
                 managerError(ErrKeyChain), 1, 1, 0, "live")
        ELSE Out(k.key, NilKey, NilKey, NoErr, 1, 1, 0, zeroBytes(d.bytes))

\* LazyLoadRoot going on after a failed store lookup
LazyLoadRoot_IgnoreFetchErr(s, ns, cryptoKeyPriv) ==
    IF s.rootPrivKey # NilKey
    THEN Out(s.rootPrivKey, NilKey, NilKey, NoErr, 0, 0, 0, "none")
    ELSE
    LET f == fetchMasterHDKeys(ns)
        d == Decrypt(cryptoKeyPriv, f.masterRootPrivEnc)
        k == NewKeyFromString(d.bytes)
    IN  IF f.masterRootPrivEnc.nilSlice
        THEN Out(s.rootPrivKey, NilKey, NilKey,
                 managerError(ErrWatchingOnly), 1, 0, 0, "none")
        ELSE IF d.err # NoErr
        THEN Out(s.rootPrivKey, NilKey, NilKey,
                 managerError(ErrLocked), 1, 1, 0, "none")
        ELSE IF k.err # NoErr
        THEN Out(k.key, NilKey, NilKey,
                 managerError(ErrKeyChain), 1, 1, 0, zeroBytes(d.bytes))
        ELSE Out(k.key, NilKey, NilKey, NoErr, 1, 1, 0, zeroBytes(d.bytes))

\* DeriveCoinTypeKey, the block under "if s.rootPrivKey == nil",
\* keymaker.go:70-102.  priv and pub are unused here.
LazyLoadRoot(s, ns, cryptoKeyPriv) ==
    IF s.rootPrivKey # NilKey
    THEN Out(s.rootPrivKey, NilKey, NilKey, NoErr, 0, 0, 0, "none")
    ELSE
    LET f == fetchMasterHDKeys(ns)
        d == Decrypt(cryptoKeyPriv, f.masterRootPrivEnc)
        k == NewKeyFromString(d.bytes)
    IN  IF f.err # NoErr
        THEN Out(s.rootPrivKey, NilKey, NilKey, f.err, 1, 0, 0, "none")
        ELSE IF f.masterRootPrivEnc.nilSlice
        THEN Out(s.rootPrivKey, NilKey, NilKey,
                 managerError(ErrWatchingOnly), 1, 0, 0, "none")
        ELSE IF d.err # NoErr
        THEN Out(s.rootPrivKey, NilKey, NilKey,
                 managerError(ErrLocked), 1, 1, 0, "none")
        \* s.rootPrivKey, err = NewKeyFromString(...): assigned on both
        \* outcomes, then the plaintext is zeroed, then err is tested
        ELSE IF k.err # NoErr
        THEN Out(k.key, NilKey, NilKey,
                 managerError(ErrKeyChain), 1, 1, 0, zeroBytes(d.bytes))
        ELSE Out(k.key, NilKey, NilKey, NoErr, 1, 1, 0, zeroBytes(d.bytes))

\* DeriveCoinTypeKey, the derivation from the root key, keymaker.go:114-132
DeriveFromRoot(root, scope) ==
    LET purpose  == Child(root, Add32(scope.Purpose, HardenedKeyStart))
        coinType == Child(purpose.key, Add32(scope.Coin, HardenedKeyStart))
        pub      == Neuter(coinType.key)
    IN  IF purpose.err # NoErr
        THEN Out(root, NilKey, NilKey, purpose.err, 0, 0, 1, "none")
        ELSE IF coinType.err # NoErr
        THEN Out(root, NilKey, NilKey, coinType.err, 0, 0, 2, "none")
        ELSE IF pub.err # NoErr
        THEN Out(root, NilKey, NilKey,
                 "failed to convert cointype private key", 0, 0, 2, "none")
        ELSE Out(root, coinType.key, pub.key, NoErr, 0, 0, 2, "none")

\* DeriveCoinTypeKey testing the coin type after the root key is loaded
DeriveCoinTypeKey_CheckAfterLoad(s, scope, ns, cryptoKeyPriv) ==
    LET l == LazyLoadRoot(s, ns, cryptoKeyPriv)
        r == DeriveFromRoot(l.root, scope)
    IN  IF l.err # NoErr
        THEN l
        ELSE IF Gt32(scope.Coin, maxCoinType)
        THEN [l EXCEPT !.err = managerError(ErrCoinTypeTooHigh)]
        ELSE [r EXCEPT !.fetched = l.fetched, !.decrypted = l.decrypted,
                       !.plain = l.plain]

\* DeriveCoinTypeKey, keymaker.go:63-133
DeriveCoinTypeKey(s, scope, ns, cryptoKeyPriv) ==
    IF Gt32(scope.Coin, maxCoinType)
    THEN Out(s.rootPrivKey, NilKey, NilKey,
             managerError(ErrCoinTypeTooHigh), 0, 0, 0, "none")
    ELSE
    LET l == LazyLoadRoot(s, ns, cryptoKeyPriv)
        r == DeriveFromRoot(l.root, scope)
    IN  IF l.err # NoErr
        THEN l
        ELSE [r EXCEPT !.fetched = l.fetched, !.decrypted = l.decrypted,
                       !.plain = l.plain]

\* DeriveAccountKey testing the account number after the coin type key is
\* derived
DeriveAccountKey_CheckAfterCoinType(s, scope, account, ns, cryptoKeyPriv) ==
    LET ct   == DeriveCoinTypeKey(s, scope, ns, cryptoKeyPriv)
        acct == Child(ct.priv, Add32(account, HardenedKeyStart))
        pub  == Neuter(acct.key)
    IN  IF Gt32(account, MaxAccountNum)
        THEN [ct EXCEPT !.priv = NilKey, !.pub = NilKey,
                        !.err = managerError(ErrAccountNumTooHigh)]
        ELSE IF ct.priv = NilKey
        THEN [ct EXCEPT !.err = NilDereference, !.returned = FALSE,
                        !.children = ct.children + 1]
        ELSE IF acct.err # NoErr
        THEN [ct EXCEPT !.priv = NilKey, !.pub = NilKey, !.err = acct.err,
                        !.children = ct.children + 1]
        ELSE IF pub.err # NoErr
        THEN [ct EXCEPT !.priv = NilKey, !.pub = NilKey,
                        !.err = "failed to convert private key for account 0",
                        !.children = ct.children + 1]
        ELSE [ct EXCEPT !.priv = acct.key, !.pub = pub.key, !.err = NoErr,
                        !.children = ct.children + 1]

\* DeriveAccountKey deriving the account child without the hardened offset
DeriveAccountKey_NotHardened(s, scope, account, ns, cryptoKeyPriv) ==
    IF Gt32(account, MaxAccountNum)
    THEN Out(s.rootPrivKey, NilKey, NilKey,
             managerError(ErrAccountNumTooHigh), 0, 0, 0, "none")
    ELSE
    LET ct   == DeriveCoinTypeKey(s, scope, ns, cryptoKeyPriv)
        acct == Child(ct.priv, account)
        pub  == Neuter(acct.key)
    IN  IF ct.priv = NilKey
        THEN [ct EXCEPT !.err = NilDereference, !.returned = FALSE,
                        !.children = ct.children + 1]
        ELSE IF acct.err # NoErr
        THEN [ct EXCEPT !.priv = NilKey, !.pub = NilKey, !.err = acct.err,
                        !.children = ct.children + 1]
        ELSE IF pub.err # NoErr
        THEN [ct EXCEPT !.priv = NilKey, !.pub = NilKey,
                        !.err = "failed to convert private key for account 0",
                        !.children = ct.children + 1]
        ELSE [ct EXCEPT !.priv = acct.key, !.pub = pub.key, !.err = NoErr,
                        !.children = ct.children + 1]

\* DeriveAccountKey returning the public key of the coin type key
DeriveAccountKey_CoinTypePub(s, scope, account, ns, cryptoKeyPriv) ==
    IF Gt32(account, MaxAccountNum)
    THEN Out(s.rootPrivKey, NilKey, NilKey,
             managerError(ErrAccountNumTooHigh), 0, 0, 0, "none")
    ELSE
    LET ct   == DeriveCoinTypeKey(s, scope, ns, cryptoKeyPriv)
        acct == Child(ct.priv, Add32(account, HardenedKeyStart))
        pub  == Neuter(acct.key)
    IN  IF ct.priv = NilKey
        THEN [ct EXCEPT !.err = NilDereference, !.returned = FALSE,
                        !.children = ct.children + 1]
        ELSE IF acct.err # NoErr
        THEN [ct EXCEPT !.priv = NilKey, !.pub = NilKey, !.err = acct.err,
                        !.children = ct.children + 1]
        ELSE IF pub.err # NoErr
        THEN [ct EXCEPT !.priv = NilKey, !.pub = NilKey,
                        !.err = "failed to convert private key for account 0",
                        !.children = ct.children + 1]
        ELSE [ct EXCEPT !.priv = acct.key, !.pub = ct.pub, !.err = NoErr,
                        !.children = ct.children + 1]

\* DeriveAccountKey, keymaker.go:135-156.  The error of the inner
\* DeriveCoinTypeKey call is overwritten without being tested; Child is
\* then called on the returned pointer, and reads a field of its receiver
\* first: on a nil receiver the call panics.
DeriveAccountKey(s, scope, account, ns, cryptoKeyPriv) ==
    IF Gt32(account, MaxAccountNum)
    THEN Out(s.rootPrivKey, NilKey, NilKey,
             managerError(ErrAccountNumTooHigh), 0, 0, 0, "none")
    ELSE
    LET ct   == DeriveCoinTypeKey(s, scope, ns, cryptoKeyPriv)
        acct == Child(ct.priv, Add32(account, HardenedKeyStart))
        pub  == Neuter(acct.key)
    IN  IF ct.priv = NilKey
        THEN [ct EXCEPT !.err = NilDereference, !.returned = FALSE,
                        !.children = ct.children + 1]
        ELSE IF acct.err # NoErr
        THEN [ct EXCEPT !.priv = NilKey, !.pub = NilKey, !.err = acct.err,
                        !.children = ct.children + 1]
        ELSE IF pub.err # NoErr
        THEN [ct EXCEPT !.priv = NilKey, !.pub = NilKey,
                        !.err = "failed to convert private key for account 0",
                        !.children = ct.children + 1]
        ELSE [ct EXCEPT !.priv = acct.key, !.pub = pub.key, !.err = NoErr,
                        !.children = ct.children + 1]

(***************************************************************************)
(* Inputs.                                                                 *)
(***************************************************************************)
Purposes == {U32(0, 44), U32(1, 44)}
Coins    == {U32(0, 0), maxCoinType, HardenedKeyStart}
Accounts == {U32(0, 0), MaxAccountNum, Add32(MaxAccountNum, U32(0, 1))}
Scopes   == {[Purpose |-> p, Coin |-> c] : p \in Purposes, c \in Coins}

NilSeed == [id |-> "nil", valid |-> "badlen"]
Seeds   == {[id |-> "S1", valid |-> "ok"], [id |-> "S2", valid |-> "ok"],
            [id |-> "S3", valid |-> "badlen"],
            [id |-> "S4", valid |-> "unusable"]}
Params  == {"mainnet", "customnet"}

\* root keys handed to NewLocalKeyMaker
RootKeys == {NilKey,
             [root |-> "X1", path |-> <<>>, isPrivate |-> TRUE, netKnown |-> TRUE],
             [root |-> "X1", path |-> <<>>, isPrivate |-> FALSE, netKnown |-> TRUE]}

\* store transactions: the lookup fails, finds no private record, or finds
\* the sealed serialization of a key (or of bytes that are not a key)
Buckets == {[fails |-> TRUE,  masterRootPrivEnc |-> NilCipher],
            [fails |-> FALSE, masterRootPrivEnc |-> NilCipher]}
           \cup
           {[fails |-> FALSE, masterRootPrivEnc |-> Seal(b)] :
              b \in {Bytes(TRUE, "X1", TRUE, TRUE), Bytes(TRUE, "X1", TRUE, FALSE),
                     Bytes(FALSE, "X1", TRUE, TRUE)}}

Decryptors == {"unlocked", "locked"}

NoScope   == [Purpose |-> U32(0, 0), Coin |-> U32(0, 0)]
NoAccount == U32(0, 0)
NoBucket  == [fails |-> FALSE, masterRootPrivEnc |-> NilCipher]

\* the coin type is within bounds
CoinInRange(scope) == ~Gt32(scope.Coin, maxCoinType)
\* the account number is within bounds
AccountInRange(account) == ~Gt32(account, MaxAccountNum)
\* the store holds a record that decrypts to a serialized extended key
HoldsKey(ns) == /\ ~ns.fails
                /\ ~ns.masterRootPrivEnc.nilSlice
                /\ ns.masterRootPrivEnc.sealed.wellFormed

(***************************************************************************)
(* State: the fields of one LocalKeyMaker (rootPrivKey0 is rootPrivKey as  *)
(* the constructor set it), the last call and its outcome, and counts over *)
(* the instance's lifetime.  hwConfig is the field of a RemoteKeyMaker     *)
(* ("none" on a LocalKeyMaker).  threads holds the calls in progress when  *)
(* the calls are made by concurrent goroutines, and is empty when the      *)
(* calls are made one at a time.                                           *)
(***************************************************************************)
VARIABLES seed, chainParams, rootPrivKey, rootPrivKey0, ret, nCalls, fetches,
          decrypts, hist, created, hwConfig, threads

vars == <<seed, chainParams, rootPrivKey, rootPrivKey0, ret, nCalls, fetches,
          decrypts, hist, created, hwConfig, threads>>

\* the goroutines that may call into one instance at the same time
Threads == 1..MaxCalls

\* a goroutine that has not called yet: the arguments, the locals of
\* DeriveCoinTypeKey and the results of its call
IdleThread == [pc |-> "idle", op |-> "none", scope |-> NoScope,
               account |-> NoAccount, ns |-> NoBucket,
               cryptoKeyPriv |-> "locked",
               masterRootPrivEnc |-> NilCipher,
               serializedMasterRootPriv |-> NilBytes, plain |-> "none",
               parseErr |-> NoErr,
               priv |-> NilKey, pub |-> NilKey, err |-> NoErr,
               returned |-> FALSE, sawNil |-> FALSE, readNil |-> FALSE]

self == [seed |-> seed, chainParams |-> chainParams, rootPrivKey |-> rootPrivKey]

NoCall == [op |-> "none", scope |-> NoScope, account |-> NoAccount,
           ns |-> NoBucket, cryptoKeyPriv |-> "locked",
           priv |-> NilKey, pub |-> NilKey, err |-> NoErr, returned |-> TRUE,
           fetched |-> 0, decrypted |-> 0, children |-> 0, plain |-> "none",
           rootBefore |-> NilKey, histBefore |-> "none", errBefore |-> NoErr]

\* NewLocalKeyMaker(rootPrivKey)
NewLocalKeyMaker ==
    /\ rootPrivKey \in RootKeys
    /\ seed = NilSeed
    /\ chainParams = "nil"

\* NewLocalKeyMakerFromSeed(seed, chainParams)
NewLocalKeyMakerFromSeed ==
    /\ seed \in Seeds
    /\ chainParams \in Params
    /\ rootPrivKey = NilKey

Init ==
    /\ (NewLocalKeyMaker \/ NewLocalKeyMakerFromSeed)
    /\ rootPrivKey0 = rootPrivKey
    /\ ret = NoCall
    /\ nCalls = 0
    /\ fetches = 0
    /\ decrypts = 0
    /\ hist = "none"
    /\ created = FALSE
    /\ hwConfig = "none"
    /\ threads = <<>>

\* what the calls so far have been: only DeriveCoinTypeKey calls that failed
\* with ErrLocked ("locked"), only DeriveCoinTypeKey calls with an in-range
\* scope, a store holding a key and a decryptor that succeeds ("good"), or
\* anything else ("mixed")
HistAfter(op, scope, ns, cryptoKeyPriv, r) ==
    LET isLocked == op = "DeriveCoinTypeKey" /\ r.err = ErrLocked
        isGood   == /\ op = "DeriveCoinTypeKey"
                    /\ CoinInRange(scope)
                    /\ HoldsKey(ns)
                    /\ cryptoKeyPriv = "unlocked"
    IN  IF isLocked /\ hist \in {"none", "locked"} THEN "locked"
        ELSE IF isGood /\ hist \in {"none", "good"} THEN "good"
        ELSE "mixed"

\* the call op(scope, account, ns, cryptoKeyPriv) ended with outcome r
Finish(op, scope, account, ns, cryptoKeyPriv, r) ==
    /\ rootPrivKey' = r.root
    /\ ret' = [op |-> op, scope |-> scope, account |-> account, ns |-> ns,
               cryptoKeyPriv |-> cryptoKeyPriv,
               priv |-> r.priv, pub |-> r.pub, err |-> r.err,
               returned |-> r.returned,
               fetched |-> r.fetched, decrypted |-> r.decrypted,
               children |-> r.children, plain |-> r.plain,
               rootBefore |-> rootPrivKey, histBefore |-> hist,
               errBefore |-> ret.err]
    /\ nCalls' = nCalls + 1
    /\ fetches' = fetches + r.fetched
    /\ decrypts' = decrypts + r.decrypted
    /\ hist' = HistAfter(op, scope, ns, cryptoKeyPriv, r)
    /\ created' = (created \/ (op = "CreateMasterKey" /\ r.err = NoErr))
    /\ UNCHANGED <<seed, chainParams, rootPrivKey0, hwConfig, threads>>

CallCreateMasterKey ==
    /\ nCalls < MaxCalls
    /\ Finish("CreateMasterKey", NoScope, NoAccount, NoBucket, "locked",
              CreateMasterKey(self))

CallDeriveCoinTypeKey ==
    /\ nCalls < MaxCalls
    /\ \E scope \in Scopes, ns \in Buckets, cryptoKeyPriv \in Decryptors :
         Finish("DeriveCoinTypeKey", scope, NoAccount, ns, cryptoKeyPriv,
                DeriveCoinTypeKey(self, scope, ns, cryptoKeyPriv))

CallDeriveAccountKey ==
    /\ nCalls < MaxCalls
    /\ \E scope \in Scopes, account \in Accounts, ns \in Buckets,
          cryptoKeyPriv \in Decryptors :
         Finish("DeriveAccountKey", scope, account, ns, cryptoKeyPriv,
                DeriveAccountKey(self, scope, account, ns, cryptoKeyPriv))

Next == \/ CallCreateMasterKey
        \/ CallDeriveCoinTypeKey
        \/ CallDeriveAccountKey

Spec == Init /\ [][Next]_vars

(***************************************************************************)
(* RemoteKeyMaker, keymaker.go:158-176.  Each method is                    *)
(* panic("implement me"): no bounds check, no return.                      *)
(***************************************************************************)
ImplementMe == "panic: implement me"

HwConfigs == {"nil", "ledger"}

\* RemoteKeyMaker.CreateMasterKey, keymaker.go:166-168
RemoteCreateMasterKey(s) ==
    [Out(s.rootPrivKey, NilKey, NilKey, ImplementMe, 0, 0, 0, "none")
       EXCEPT !.returned = FALSE]

\* RemoteKeyMaker.DeriveCoinTypeKey, keymaker.go:170-172
RemoteDeriveCoinTypeKey(s, scope, ns, cryptoKeyPriv) ==
    [Out(s.rootPrivKey, NilKey, NilKey, ImplementMe, 0, 0, 0, "none")
       EXCEPT !.returned = FALSE]

\* RemoteKeyMaker.DeriveAccountKey, keymaker.go:174-176
RemoteDeriveAccountKey(s, scope, account, ns, cryptoKeyPriv) ==
    [Out(s.rootPrivKey, NilKey, NilKey, ImplementMe, 0, 0, 0, "none")
       EXCEPT !.returned = FALSE]

\* NewRemoteKeyMaker(hwConfig): none of the LocalKeyMaker fields exists
NewRemoteKeyMaker ==
    /\ hwConfig \in HwConfigs
    /\ seed = NilSeed
    /\ chainParams = "nil"
    /\ rootPrivKey = NilKey

InitRemote ==
    /\ NewRemoteKeyMaker
    /\ rootPrivKey0 = rootPrivKey
    /\ ret = NoCall
    /\ nCalls = 0
    /\ fetches = 0
    /\ decrypts = 0
    /\ hist = "none"
    /\ created = FALSE
    /\ threads = <<>>

RemoteCallCreateMasterKey ==
    /\ nCalls < MaxCalls
    /\ Finish("CreateMasterKey", NoScope, NoAccount, NoBucket, "locked",
              RemoteCreateMasterKey(self))

RemoteCallDeriveCoinTypeKey ==
    /\ nCalls < MaxCalls
    /\ \E scope \in Scopes, ns \in Buckets, cryptoKeyPriv \in Decryptors :
         Finish("DeriveCoinTypeKey", scope, NoAccount, ns, cryptoKeyPriv,
                RemoteDeriveCoinTypeKey(self, scope, ns, cryptoKeyPriv))

RemoteCallDeriveAccountKey ==
    /\ nCalls < MaxCalls
    /\ \E scope \in Scopes, account \in Accounts, ns \in Buckets,
          cryptoKeyPriv \in Decryptors :
         Finish("DeriveAccountKey", scope, account, ns, cryptoKeyPriv,
                RemoteDeriveAccountKey(self, scope, account, ns, cryptoKeyPriv))

NextRemote == \/ RemoteCallCreateMasterKey
              \/ RemoteCallDeriveCoinTypeKey
              \/ RemoteCallDeriveAccountKey

SpecRemote == InitRemote /\ [][NextRemote]_vars

(***************************************************************************)
(* Concurrent callers.  LocalKeyMaker has no lock: goroutines calling      *)
(* DeriveCoinTypeKey / DeriveAccountKey on one instance interleave at      *)
(* every access to s.rootPrivKey and at every call to the store and the    *)
(* decryptor.  A pc names the line of keymaker.go the goroutine executes   *)
(* next.  s.rootPrivKey is one word: a racing read yields nil or a pointer *)
(* that was written.  Each goroutine makes one call.                       *)
(***************************************************************************)
ConcScopes   == {[Purpose |-> U32(0, 44), Coin |-> U32(0, 0)]}
ConcAccounts == {U32(0, 0)}
ConcBuckets  == {[fails |-> FALSE, masterRootPrivEnc |-> NilCipher],
                 [fails |-> FALSE,
                  masterRootPrivEnc |-> Seal(Bytes(TRUE, "X1", TRUE, TRUE))],
                 [fails |-> FALSE,
                  masterRootPrivEnc |-> Seal(Bytes(FALSE, "X1", TRUE, TRUE))]}

\* DeriveAccountKey after the inner call, keymaker.go:144-155, on the
\* values ct the inner DeriveCoinTypeKey returned
AccountStep(ct, account) ==
    LET acct == Child(ct.priv, Add32(account, HardenedKeyStart))
        pub  == Neuter(acct.key)
    IN  IF ct.priv = NilKey
        THEN [priv |-> NilKey, pub |-> NilKey, err |-> NilDereference,
              returned |-> FALSE]
        ELSE IF acct.err # NoErr
        THEN [priv |-> NilKey, pub |-> NilKey, err |-> acct.err,
              returned |-> TRUE]
        ELSE IF pub.err # NoErr
        THEN [priv |-> NilKey, pub |-> NilKey,
              err |-> "failed to convert private key for account 0",
              returned |-> TRUE]
        ELSE [priv |-> acct.key, pub |-> pub.key, err |-> NoErr,
              returned |-> TRUE]

\* the goroutine th leaves DeriveCoinTypeKey with (priv, pub, err), and
\* DeriveAccountKey, when that is the method it called, goes on from there
EndCall(th, priv, pub, err) ==
    LET o == IF th.op = "DeriveAccountKey"
             THEN AccountStep([priv |-> priv, pub |-> pub, err |-> err],
                              th.account)
             ELSE [priv |-> priv, pub |-> pub, err |-> err, returned |-> TRUE]
    IN  [th EXCEPT !.pc = "done", !.priv = o.priv, !.pub = o.pub,
                   !.err = o.err, !.returned = o.returned,
                   !.masterRootPrivEnc = NilCipher,
                   !.serializedMasterRootPriv = NilBytes]

\* a goroutine calls DeriveCoinTypeKey or DeriveAccountKey and runs the
\* bounds checks, keymaker.go:137-140 and 65-68
GoCall(t) ==
    /\ threads[t].pc = "idle"
    /\ \E op \in {"DeriveCoinTypeKey", "DeriveAccountKey"},
          scope \in ConcScopes, account \in ConcAccounts,
          ns \in ConcBuckets, cryptoKeyPriv \in Decryptors :
         LET th == [threads[t] EXCEPT !.op = op, !.scope = scope,
                                      !.account = account, !.ns = ns,
                                      !.cryptoKeyPriv = cryptoKeyPriv]
         IN  threads' =
               [threads EXCEPT ![t] =
                  IF op = "DeriveAccountKey" /\ Gt32(account, MaxAccountNum)
                  THEN [th EXCEPT !.pc = "done", !.returned = TRUE,
                                  !.err = managerError(ErrAccountNumTooHigh)]
                  ELSE IF Gt32(scope.Coin, maxCoinType)
                  THEN EndCall(th, NilKey, NilKey,
                               managerError(ErrCoinTypeTooHigh))
                  ELSE [th EXCEPT !.pc = "L70"]]
    /\ nCalls' = nCalls + 1
    /\ UNCHANGED <<seed, chainParams, rootPrivKey, rootPrivKey0, ret, fetches,
                   decrypts, hist, created, hwConfig>>

\* if s.rootPrivKey == nil, keymaker.go:70
StepTestNil(t) ==
    /\ threads[t].pc = "L70"
    /\ threads' = [threads EXCEPT ![t] =
                     IF rootPrivKey = NilKey
                     THEN [@ EXCEPT !.pc = "L71", !.sawNil = TRUE]
                     ELSE [@ EXCEPT !.pc = "L115"]]
    /\ UNCHANGED <<seed, chainParams, rootPrivKey, rootPrivKey0, ret, nCalls,
                   fetches, decrypts, hist, created, hwConfig>>

\* fetchMasterHDKeys and the tests of its results, keymaker.go:71-81
StepFetch(t) ==
    /\ threads[t].pc = "L71"
    /\ LET f == fetchMasterHDKeys(threads[t].ns)
       IN  threads' = [threads EXCEPT ![t] =
                         IF f.err # NoErr
                         THEN EndCall(@, NilKey, NilKey, f.err)
                         ELSE IF f.masterRootPrivEnc.nilSlice
                         THEN EndCall(@, NilKey, NilKey,
                                      managerError(ErrWatchingOnly))
                         ELSE [@ EXCEPT !.pc = "L85",
                                 !.masterRootPrivEnc = f.masterRootPrivEnc]]
    /\ fetches' = fetches + 1
    /\ UNCHANGED <<seed, chainParams, rootPrivKey, rootPrivKey0, ret, nCalls,
                   decrypts, hist, created, hwConfig>>

\* cryptoKeyPriv.Decrypt and the test of its error, keymaker.go:85-89
StepDecrypt(t) ==
    /\ threads[t].pc = "L85"
    /\ LET d == Decrypt(threads[t].cryptoKeyPriv, threads[t].masterRootPrivEnc)
       IN  threads' = [threads EXCEPT ![t] =
                         IF d.err # NoErr
                         THEN EndCall(@, NilKey, NilKey, managerError(ErrLocked))
                         ELSE [@ EXCEPT !.pc = "L93",
                                 !.serializedMasterRootPriv = d.bytes,
                                 !.plain = "live"]]
    /\ decrypts' = decrypts + 1
    /\ UNCHANGED <<seed, chainParams, rootPrivKey, rootPrivKey0, ret, nCalls,
                   fetches, hist, created, hwConfig>>

\* s.rootPrivKey, err = hdkeychain.NewKeyFromString(...), keymaker.go:93-95
StepParse(t) ==
    /\ threads[t].pc = "L93"
    /\ LET k == NewKeyFromString(threads[t].serializedMasterRootPriv)
       IN  /\ rootPrivKey' = k.key
           /\ threads' = [threads EXCEPT ![t] =
                            [@ EXCEPT !.pc = "L96", !.parseErr = k.err]]
    /\ UNCHANGED <<seed, chainParams, rootPrivKey0, ret, nCalls, fetches,
                   decrypts, hist, created, hwConfig>>

\* zero.Bytes and the test of the parse error, keymaker.go:96-100
StepZero(t) ==
    /\ threads[t].pc = "L96"
    /\ LET th == [threads[t] EXCEPT
                   !.plain = zeroBytes(threads[t].serializedMasterRootPriv)]
       IN  threads' = [threads EXCEPT ![t] =
                         IF th.parseErr # NoErr
                         THEN EndCall(th, NilKey, NilKey,
                                      managerError(ErrKeyChain))
                         ELSE [th EXCEPT !.pc = "L115",
                                         !.serializedMasterRootPriv = NilBytes]]
    /\ UNCHANGED <<seed, chainParams, rootPrivKey, rootPrivKey0, ret, nCalls,
                   fetches, decrypts, hist, created, hwConfig>>

\* s.rootPrivKey.Child(...) and the derivation below it, keymaker.go:115-132.
\* s.rootPrivKey is read here once; Child on a nil receiver panics.
StepDerive(t) ==
    /\ threads[t].pc = "L115"
    /\ threads' = [threads EXCEPT ![t] =
                     IF rootPrivKey = NilKey
                     THEN [@ EXCEPT !.pc = "done", !.readNil = TRUE,
                                    !.err = NilDereference,
                                    !.returned = FALSE]
                     ELSE LET r == DeriveFromRoot(rootPrivKey, @.scope)
                          IN  EndCall(@, r.priv, r.pub, r.err)]
    /\ UNCHANGED <<seed, chainParams, rootPrivKey, rootPrivKey0, ret, nCalls,
                   fetches, decrypts, hist, created, hwConfig>>

\* the instance has no cached root key when the goroutines start
InitConc ==
    /\ (NewLocalKeyMaker \/ NewLocalKeyMakerFromSeed)
    /\ rootPrivKey = NilKey
    /\ rootPrivKey0 = rootPrivKey
    /\ ret = NoCall
    /\ nCalls = 0
    /\ fetches = 0
    /\ decrypts = 0
    /\ hist = "none"
    /\ created = FALSE
    /\ hwConfig = "none"
    /\ threads = [t \in Threads |-> IdleThread]

NextConc == \E t \in Threads :
              \/ GoCall(t)
              \/ StepTestNil(t)
              \/ StepFetch(t)
              \/ StepDecrypt(t)
              \/ StepParse(t)
              \/ StepZero(t)
              \/ StepDerive(t)

SpecConc == InitConc /\ [][NextConc]_vars

(***************************************************************************)
(* Properties.  ret describes the last call: its arguments, what it        *)
(* returned, what it did, and the instance's root key before it.           *)
(***************************************************************************)
\* Child applied to the outcome of an earlier step of a derivation chain
ThenChild(r, i) == IF r.err # NoErr THEN r ELSE Child(r.key, i)

\* k.Child(purpose + H).Child(coin + H)
CoinTypeChain(k, scope) ==
    ThenChild(ThenChild([key |-> k, err |-> NoErr],
                        Add32(scope.Purpose, HardenedKeyStart)),
              Add32(scope.Coin, HardenedKeyStart))

\* k.Child(purpose + H).Child(coin + H).Child(account + H)
AccountChain(k, scope, account) ==
    ThenChild(CoinTypeChain(k, scope), Add32(account, HardenedKeyStart))

\* the instance as it was when the last call started
selfBefore == [seed |-> seed, chainParams |-> chainParams,
               rootPrivKey |-> ret.rootBefore]

\* the DeriveCoinTypeKey call made by the last DeriveAccountKey call
InnerCoinTypeCall ==
    DeriveCoinTypeKey(selfBefore, ret.scope, ret.ns, ret.cryptoKeyPriv)

\* the last call was DeriveCoinTypeKey with an in-range scope on an instance
\* without a cached root key
LazyCoinTypeCall ==
    /\ ret.op = "DeriveCoinTypeKey"
    /\ CoinInRange(ret.scope)
    /\ ret.rootBefore = NilKey

\* the store of the last call returned an encrypted private root record
RecordFound == ~ret.ns.fails /\ ~ret.ns.masterRootPrivEnc.nilSlice

\* C1: whenever the DeriveCoinTypeKey call made by DeriveAccountKey (account
\* in range) fails, DeriveAccountKey returns that same failure with no key
\* pair, and neither derives the account child nor aborts.
C1_PropagatesCoinTypeFailure ==
    (/\ ret.op = "DeriveAccountKey"
     /\ AccountInRange(ret.account)
     /\ InnerCoinTypeCall.err # NoErr)
    => /\ ret.returned
       /\ ret.err = InnerCoinTypeCall.err
       /\ ret.priv = NilKey /\ ret.pub = NilKey
       /\ ret.children = InnerCoinTypeCall.children

\* C2: DeriveCoinTypeKey with coin > maxCoinType fails with
\* ErrCoinTypeTooHigh, with no store lookup and no decrypt, and leaves the
\* cached root key as it was, whether or not a root key is cached.
C2_CoinTypeTooHigh ==
    (ret.op = "DeriveCoinTypeKey" /\ Gt32(ret.scope.Coin, maxCoinType))
    => /\ ret.returned
       /\ ret.err = ErrCoinTypeTooHigh
       /\ ret.priv = NilKey /\ ret.pub = NilKey
       /\ ret.fetched = 0 /\ ret.decrypted = 0 /\ ret.children = 0
       /\ rootPrivKey = ret.rootBefore

C2_Witness ==
    /\ ret.op = "DeriveCoinTypeKey"
    /\ Gt32(ret.scope.Coin, maxCoinType)
    /\ ret.rootBefore = NilKey
    /\ HoldsKey(ret.ns)
    /\ ret.cryptoKeyPriv = "unlocked"
    /\ ret.err = ErrCoinTypeTooHigh

\* C3: DeriveAccountKey with account > MaxAccountNum fails with
\* ErrAccountNumTooHigh before any DeriveCoinTypeKey call, whatever the
\* scope and the instance state: no store lookup, no decrypt, no child
\* derivation, cached root key unchanged.
C3_AccountNumTooHigh ==
    (ret.op = "DeriveAccountKey" /\ Gt32(ret.account, MaxAccountNum))
    => /\ ret.returned
       /\ ret.err = ErrAccountNumTooHigh
       /\ ret.priv = NilKey /\ ret.pub = NilKey
       /\ ret.fetched = 0 /\ ret.decrypted = 0 /\ ret.children = 0
       /\ rootPrivKey = ret.rootBefore

C3_Witness ==
    /\ ret.op = "DeriveAccountKey"
    /\ Gt32(ret.account, MaxAccountNum)
    /\ Gt32(ret.scope.Coin, maxCoinType)
    /\ ret.rootBefore = NilKey
    /\ HoldsKey(ret.ns)
    /\ ret.cryptoKeyPriv = "unlocked"
    /\ ret.err = ErrAccountNumTooHigh

\* C4: on an instance constructed without a root key, two or more
\* DeriveCoinTypeKey calls with in-range scopes, a store that holds the
\* root record and a decryptor that succeeds make one store lookup and one
\* decrypt in total; every call after the first reuses the cached root.
C4_OneLookupOneDecrypt ==
    (rootPrivKey0 = NilKey /\ hist = "good" /\ nCalls >= 2)
    => /\ fetches = 1 /\ decrypts = 1
       /\ ret.fetched = 0 /\ ret.decrypted = 0
       /\ ret.rootBefore # NilKey
       /\ rootPrivKey = ret.rootBefore

C4_Witness ==
    /\ rootPrivKey0 = NilKey
    /\ hist = "good"
    /\ nCalls >= 2
    /\ fetches = 1
    /\ ret.err = NoErr

\* C5: with no cached root key and a store without an encrypted private
\* root record, DeriveCoinTypeKey (scope in range) fails with
\* ErrWatchingOnly, does not call the decryptor, and caches nothing.
C5_WatchingOnly ==
    (/\ LazyCoinTypeCall
     /\ ~ret.ns.fails
     /\ ret.ns.masterRootPrivEnc.nilSlice)
    => /\ ret.returned
       /\ ret.err = ErrWatchingOnly
       /\ ret.priv = NilKey /\ ret.pub = NilKey
       /\ ret.decrypted = 0
       /\ rootPrivKey = NilKey

C5_Witness ==
    /\ LazyCoinTypeCall
    /\ ~ret.ns.fails
    /\ ret.ns.masterRootPrivEnc.nilSlice
    /\ ret.cryptoKeyPriv = "unlocked"
    /\ ret.err = ErrWatchingOnly

\* C6: with no cached root key, a store that holds the encrypted record and
\* a decryptor that fails, DeriveCoinTypeKey fails with ErrLocked and the
\* root key is as before the call: not cached.
C6_Locked ==
    (LazyCoinTypeCall /\ RecordFound /\ ret.cryptoKeyPriv = "locked")
    => /\ ret.returned
       /\ ret.err = ErrLocked
       /\ ret.priv = NilKey /\ ret.pub = NilKey
       /\ rootPrivKey = ret.rootBefore
       /\ rootPrivKey = NilKey

C6_Witness ==
    /\ LazyCoinTypeCall
    /\ RecordFound
    /\ ret.cryptoKeyPriv = "locked"
    /\ ret.err = ErrLocked
    /\ ret.decrypted = 1

\* C7: after DeriveCoinTypeKey calls that all failed with ErrLocked, a
\* DeriveCoinTypeKey call with an in-range scope, a store holding the key
\* record and a decryptor that succeeds looks the record up and decrypts it
\* again, caches the parsed root key, and returns what an instance that was
\* never locked returns: the key pair m/purpose'/coin' of the stored root.
C7_RetryAfterLocked ==
    (/\ ret.histBefore = "locked"
     /\ ret.op = "DeriveCoinTypeKey"
     /\ CoinInRange(ret.scope)
     /\ HoldsKey(ret.ns)
     /\ ret.cryptoKeyPriv = "unlocked")
    => LET k     == NewKeyFromString(ret.ns.masterRootPrivEnc.sealed).key
           c     == CoinTypeChain(k, ret.scope)
           fresh == DeriveCoinTypeKey([seed |-> seed, chainParams |-> chainParams,
                                       rootPrivKey |-> rootPrivKey0],
                                      ret.scope, ret.ns, ret.cryptoKeyPriv)
       IN  /\ ret.fetched = 1 /\ ret.decrypted = 1
           /\ rootPrivKey = k /\ k # NilKey
           /\ ret.priv = fresh.priv /\ ret.pub = fresh.pub /\ ret.err = fresh.err
           /\ (c.err = NoErr /\ Neuter(c.key).err = NoErr)
              => /\ ret.err = NoErr
                 /\ ret.priv = c.key
                 /\ ret.pub = Neuter(c.key).key

C7_Witness ==
    /\ ret.histBefore = "locked"
    /\ ret.op = "DeriveCoinTypeKey"
    /\ CoinInRange(ret.scope)
    /\ HoldsKey(ret.ns)
    /\ ret.cryptoKeyPriv = "unlocked"
    /\ ret.err = NoErr
    /\ ret.priv # NilKey
    /\ rootPrivKey # NilKey

\* C8: with no cached root key, a decrypt that succeeds and plaintext that
\* does not parse as an extended key, DeriveCoinTypeKey fails with
\* ErrKeyChain, returns no key pair and leaves no root key cached; the next
\* call that passes its bounds checks looks the record up (and decrypts it)
\* again.
C8_KeyChainCorrupt ==
    /\ (/\ LazyCoinTypeCall
        /\ RecordFound
        /\ ret.cryptoKeyPriv = "unlocked"
        /\ ~ret.ns.masterRootPrivEnc.sealed.wellFormed)
       => /\ ret.returned
          /\ ret.err = ErrKeyChain
          /\ ret.priv = NilKey /\ ret.pub = NilKey
          /\ rootPrivKey = NilKey
    /\ (/\ ret.errBefore = ErrKeyChain
        /\ \/ ret.op = "DeriveCoinTypeKey" /\ CoinInRange(ret.scope)
           \/ /\ ret.op = "DeriveAccountKey"
              /\ AccountInRange(ret.account) /\ CoinInRange(ret.scope))
       => /\ ret.rootBefore = NilKey
          /\ ret.fetched = 1
          /\ RecordFound => ret.decrypted = 1

C8_Witness ==
    /\ LazyCoinTypeCall
    /\ RecordFound
    /\ ret.cryptoKeyPriv = "unlocked"
    /\ ~ret.ns.masterRootPrivEnc.sealed.wellFormed
    /\ ret.err = ErrKeyChain
    /\ ret.errBefore = ErrKeyChain
    /\ ret.fetched = 1 /\ ret.decrypted = 1

\* C9: after CreateMasterKey succeeded on an instance built from seed S,
\* DeriveAccountKey with in-range scope and account returns as private key
\* NewMaster(S, P).Child(purpose + H).Child(coin + H).Child(account + H),
\* and DeriveCoinTypeKey returns the two-step prefix of that chain
\* (wherever the chain exists).
C9_DerivesTheChain ==
    LET m == NewMaster(seed, chainParams).key
        a == AccountChain(m, ret.scope, ret.account)
        c == CoinTypeChain(m, ret.scope)
    IN  /\ (/\ created
            /\ ret.op = "DeriveAccountKey"
            /\ CoinInRange(ret.scope) /\ AccountInRange(ret.account)
            /\ a.err = NoErr)
           => /\ ret.returned /\ ret.err = NoErr
              /\ ret.priv = a.key
              /\ ret.priv.path = <<Add32(ret.scope.Purpose, HardenedKeyStart),
                                   Add32(ret.scope.Coin, HardenedKeyStart),
                                   Add32(ret.account, HardenedKeyStart)>>
        /\ (/\ created
            /\ ret.op = "DeriveCoinTypeKey"
            /\ CoinInRange(ret.scope)
            /\ c.err = NoErr)
           => /\ ret.returned /\ ret.err = NoErr
              /\ ret.priv = c.key

C9_Witness ==
    /\ created
    /\ ret.op = "DeriveAccountKey"
    /\ ret.scope = [Purpose |-> U32(0, 44), Coin |-> U32(0, 0)]
    /\ ret.account = U32(0, 0)
    /\ ret.err = NoErr
    /\ ret.priv = [root |-> seed.id,
                   path |-> <<U32(1, 44), U32(1, 0), U32(1, 0)>>,
                   isPrivate |-> TRUE, netKnown |-> TRUE]

\* C10: whenever CreateMasterKey, DeriveCoinTypeKey or DeriveAccountKey
\* returns without error, the public key it returns is the neutered private
\* key it returns.
C10_PublicIsNeuteredPrivate ==
    (ret.op # "none" /\ ret.returned /\ ret.err = NoErr)
    => /\ ret.priv # NilKey
       /\ ret.priv.isPrivate
       /\ Neuter(ret.priv).err = NoErr
       /\ ret.pub = Neuter(ret.priv).key

C10_Witness ==
    /\ ret.op = "DeriveAccountKey"
    /\ ret.returned
    /\ ret.err = NoErr
    /\ ret.pub = [ret.priv EXCEPT !.isPrivate = FALSE]
    /\ Len(ret.priv.path) = 3

\* the master key of the instance's seed
MasterOfSeed == NewMaster(seed, chainParams)

\* the errors CreateMasterKey builds for a failed derivation of the master
\* key pair: the kind KeyDerivationFailed
KeyDerivationFailed == {"failed to derive master extended key",
                        "failed to neuter master extended key"}

\* C11: every call returns, and returns either no error with both keys or
\* an error with neither key.
C11_ReturnShapes ==
    (ret.op # "none")
    => /\ ret.returned
       /\ \/ ret.err = NoErr /\ ret.priv # NilKey /\ ret.pub # NilKey
          \/ ret.err # NoErr /\ ret.priv = NilKey /\ ret.pub = NilKey

\* C12: when CreateMasterKey succeeds the cached root key is the private
\* key it returned, and every later DeriveCoinTypeKey / DeriveAccountKey
\* call derives from that key with no store lookup and no decrypt.
C12_CreateCachesRoot ==
    /\ (ret.op = "CreateMasterKey" /\ ret.err = NoErr)
       => /\ rootPrivKey = ret.priv
          /\ ret.priv = MasterOfSeed.key
          /\ ret.priv # NilKey
    /\ (created /\ ret.op \in {"DeriveCoinTypeKey", "DeriveAccountKey"})
       => /\ ret.fetched = 0 /\ ret.decrypted = 0
          /\ ret.rootBefore = MasterOfSeed.key
          /\ rootPrivKey = MasterOfSeed.key
          /\ (ret.err = NoErr => ret.priv.root = seed.id)

C12_Witness ==
    /\ created
    /\ ret.op = "DeriveCoinTypeKey"
    /\ CoinInRange(ret.scope)
    /\ HoldsKey(ret.ns)
    /\ ret.cryptoKeyPriv = "unlocked"
    /\ ret.err = NoErr
    /\ ret.fetched = 0
    /\ ret.priv.root = seed.id

\* C13: when the seed yields no valid master key, or the master key cannot
\* be neutered, CreateMasterKey fails with an error of the kind
\* KeyDerivationFailed, returns no key and leaves the cached root key as it
\* was.
C13_CreateFails ==
    (/\ ret.op = "CreateMasterKey"
     /\ \/ MasterOfSeed.err # NoErr
        \/ Neuter(MasterOfSeed.key).err # NoErr)
    => /\ ret.returned
       /\ ret.err \in KeyDerivationFailed
       /\ ret.priv = NilKey /\ ret.pub = NilKey
       /\ rootPrivKey = ret.rootBefore

C13_Witness ==
    /\ ret.op = "CreateMasterKey"
    /\ MasterOfSeed.err = NoErr
    /\ Neuter(MasterOfSeed.key).err # NoErr
    /\ ret.err = "failed to neuter master extended key"
    /\ ret.rootBefore # NilKey
    /\ rootPrivKey = ret.rootBefore

\* C16 as stated: once the root key is set, no call changes its value.
C16_RootNeverChanges ==
    [][rootPrivKey # NilKey => rootPrivKey' = rootPrivKey]_vars

\* C16 as amended: once the root key is set, DeriveCoinTypeKey and
\* DeriveAccountKey never change it; only a successful CreateMasterKey
\* replaces it, always by the master key of the instance's seed.
C16_RootChangesOnlyByCreate ==
    [][rootPrivKey # NilKey
       => \/ rootPrivKey' = rootPrivKey
          \/ /\ ret'.op = "CreateMasterKey"
             /\ ret'.err = NoErr
             /\ rootPrivKey' = ret'.priv
             /\ rootPrivKey' = MasterOfSeed.key]_vars

C16_Witness ==
    /\ ret.op = "CreateMasterKey"
    /\ ret.err = NoErr
    /\ ret.rootBefore # NilKey
    /\ ret.rootBefore # rootPrivKey
    /\ rootPrivKey = MasterOfSeed.key

\* C17: an instance that has a cached root key still has one after any
\* operation, successful or failed.
C17_HasRootKeyAbsorbing ==
    [][rootPrivKey # NilKey => rootPrivKey' # NilKey]_vars

C17_Witness ==
    /\ ret.op = "CreateMasterKey"
    /\ ret.err # NoErr
    /\ ret.rootBefore # NilKey
    /\ rootPrivKey # NilKey

\* the decryptor of the last call returned plaintext
DecryptedPlaintext ==
    /\ ret.decrypted = 1
    /\ Decrypt(ret.cryptoKeyPriv, ret.ns.masterRootPrivEnc).err = NoErr

\* C18: in every DeriveCoinTypeKey call (made directly or by
\* DeriveAccountKey) in which the decryptor returned plaintext, the
\* plaintext buffer is zeroed when the call ends, whether the parse
\* succeeded or failed and whether the derivation then succeeded or failed.
C18_PlaintextZeroed ==
    (/\ ret.op \in {"DeriveCoinTypeKey", "DeriveAccountKey"}
     /\ DecryptedPlaintext)
    => ret.plain = "zeroed"

C18_Witness ==
    /\ ret.op = "DeriveCoinTypeKey"
    /\ DecryptedPlaintext
    /\ ret.err = ErrKeyChain
    /\ ret.plain = "zeroed"

\* C19: for every scope and account that pass the bounds checks, each index
\* passed to Child (purpose + H, coin + H, account + H in uint32
\* arithmetic) is a hardened index.
C19_IndicesHardened ==
    (ret.op \in {"DeriveCoinTypeKey", "DeriveAccountKey"})
    => /\ ret.children >= 1
          => IsHardened(Add32(ret.scope.Purpose, HardenedKeyStart))
       /\ ret.children >= 2
          => IsHardened(Add32(ret.scope.Coin, HardenedKeyStart))
       /\ ret.children >= 3
          => IsHardened(Add32(ret.account, HardenedKeyStart))
       /\ \A n \in 1..Len(ret.priv.path) : IsHardened(ret.priv.path[n])

\* C20: with no cached root key and a store lookup that fails,
\* DeriveCoinTypeKey returns the store's error with no key pair, does not
\* call the decryptor and caches nothing; the next call looks up again.
C20_StoreError ==
    /\ (LazyCoinTypeCall /\ ret.ns.fails)
       => /\ ret.returned
          /\ ret.err = fetchMasterHDKeys(ret.ns).err
          /\ ret.err = ErrDatabase
          /\ ret.priv = NilKey /\ ret.pub = NilKey
          /\ ret.fetched = 1 /\ ret.decrypted = 0
          /\ rootPrivKey = NilKey
    /\ (/\ ret.errBefore = ErrDatabase
        /\ ret.op = "DeriveCoinTypeKey"
        /\ CoinInRange(ret.scope))
       => /\ ret.rootBefore = NilKey
          /\ ret.fetched = 1

C20_Witness ==
    /\ LazyCoinTypeCall
    /\ ret.ns.fails
    /\ ret.cryptoKeyPriv = "unlocked"
    /\ ret.err = ErrDatabase
    /\ ret.errBefore = ErrDatabase
    /\ ret.fetched = 1

\* C14: every operation of the Remote Key Maker returns to its caller with
\* a key pair or an error: CoinTypeTooHigh and AccountNumTooHigh for
\* arguments out of bounds, as the Local variant, and otherwise, being
\* unimplemented, an error rather than an abort.
C14_RemoteReturns ==
    (ret.op # "none")
    => /\ ret.returned
       /\ \/ ret.err = NoErr /\ ret.priv # NilKey /\ ret.pub # NilKey
          \/ ret.err # NoErr /\ ret.priv = NilKey /\ ret.pub = NilKey
       /\ (ret.op = "DeriveCoinTypeKey" /\ ~CoinInRange(ret.scope))
          => ret.err = ErrCoinTypeTooHigh
       /\ (ret.op = "DeriveAccountKey" /\ ~AccountInRange(ret.account))
          => ret.err = ErrAccountNumTooHigh

\* the goroutines inside the lookup-decrypt-parse sequence, keymaker.go:71-100
Loading == {t \in Threads : threads[t].pc \in {"L71", "L85", "L93", "L96"}}

\* every call made so far has a store that holds the key and a decryptor
\* that succeeds
AllCallsGood ==
    \A t \in Threads :
      threads[t].pc # "idle"
      => HoldsKey(threads[t].ns) /\ threads[t].cryptoKeyPriv = "unlocked"

\* C15: when calls run concurrently on an instance without a cached root
\* key, at most one of them executes the lookup-decrypt-parse sequence (one
\* lookup and one decrypt in all when the store holds the key and the
\* decryptor succeeds), and no caller derives from an unset root key.
C15_SingleLoad ==
    /\ Cardinality(Loading) <= 1
    /\ AllCallsGood => (fetches <= 1 /\ decrypts <= 1)
    /\ \A t \in Threads : ~threads[t].readNil

====
